---- MODULE Spec2Model ----
(***************************************************************************)
(* Explosives logbook (src/app.py): two record lists kept in the session   *)
(* state and mirrored to two CSV files, a mine registry kept only in the   *)
(* session state, the stock balance and the Summary report derived from    *)
(* the lists.                                                              *)
(***************************************************************************)
EXTENDS Integers, Sequences, FiniteSets, TLC

(***************************************************************************)
(* Bounds of the model.                                                    *)
(***************************************************************************)
MaxData == 2
MaxStock == 2
MaxMines == 4

(***************************************************************************)
(* Cell values.  A cell of a record list is a Python value: a str, an int, *)
(* a float (only whole floats occur), float NaN, or a datetime.date.  The  *)
(* tag t tells which; s carries a str, n a number or the day of a date.    *)
(***************************************************************************)
PyStr(x) == [t |-> "str", s |-> x, n |-> 0]
PyInt(k) == [t |-> "int", s |-> "", n |-> k]
PyFloat(k) == [t |-> "float", s |-> "", n |-> k]
NaN == [t |-> "nan", s |-> "", n |-> 0]
PyDate(d) == [t |-> "date", s |-> "", n |-> d]

Range(q) == {q[i] : i \in 1..Len(q)}

RECURSIVE SumSeq(_)
SumSeq(q) == IF q = <<>> THEN 0 ELSE Head(q) + SumSeq(Tail(q))

(***************************************************************************)
(* Text of values, as str() and DataFrame.to_csv write them.               *)
(***************************************************************************)
Digits == <<"0", "1", "2", "3", "4", "5", "6", "7", "8", "9">>
WholeFloats == <<"0.0", "1.0", "2.0", "3.0", "4.0", "5.0", "6.0", "7.0", "8.0", "9.0">>
IsoDates == <<"2024-01-15", "2024-02-20">>

IntText(k) == Digits[k + 1]
FloatText(k) == WholeFloats[k + 1]
DateText(d) == IsoDates[d]

IsIntText(x) == x \in Range(Digits)
IsFloatText(x) == x \in Range(WholeFloats)
TextInt(x) == (CHOOSE i \in 1..Len(Digits) : Digits[i] = x) - 1
TextFloat(x) == (CHOOSE i \in 1..Len(WholeFloats) : WholeFloats[i] = x) - 1

\* The texts pandas.read_csv reads as missing (its default na_values) that
\* the inputs of this model can produce.
NaTexts == {"", "NA"}

data_columns ==
    <<"Date", "Mine", "Issued By", "Received By", "Remarks",
      "Wabox Cartridges", "Detonators", "Safety Fuse (m)">>
stock_columns == <<"Serial No", "Receiving Date", "Explosive Type", "Quantity">>
explosive_types == <<"Wabox Cartridges", "Detonators", "Safety Fuse (m)">>

\* One cell as DataFrame.to_csv writes it (na_rep is the empty text).
CellText(v) ==
    CASE v.t = "str" -> v.s
      [] v.t = "int" -> IntText(v.n)
      [] v.t = "float" -> FloatText(v.n)
      [] v.t = "date" -> DateText(v.n)
      [] OTHER -> ""

\* save_csv_data's content: the header line, then one line per record with
\* the cells in the order of `columns`.  An empty list gives a frame with no
\* columns, written as a single header line without names.
CsvOf(records, columns) ==
    IF records = <<>> THEN << <<>> >>
    ELSE <<columns>> \o
         [i \in 1..Len(records) |->
            [j \in 1..Len(columns) |-> CellText(records[i][columns[j]])]]

\* The dtype pandas.read_csv infers for one column from its texts.
ColumnKind(texts) ==
    LET present == {x \in Range(texts) : x \notin NaTexts}
        missing == \E x \in Range(texts) : x \in NaTexts
    IN  IF present = {} THEN "float"
        ELSE IF \A x \in present : IsIntText(x)
             THEN (IF missing THEN "float" ELSE "int")
        ELSE IF \A x \in present : IsIntText(x) \/ IsFloatText(x) THEN "float"
        ELSE "object"

\* One cell as read_csv returns it in a column of the given dtype.
ParseCell(x, kind) ==
    IF x \in NaTexts THEN NaN
    ELSE IF kind = "int" THEN PyInt(TextInt(x))
    ELSE IF kind = "float"
         THEN PyFloat(IF IsIntText(x) THEN TextInt(x) ELSE TextFloat(x))
    ELSE PyStr(x)

\* pd.read_csv(file).to_dict('records') of a file's content.
RecordsOf(content) ==
    LET header == content[1]
        rows == Tail(content)
        kind(j) == ColumnKind([i \in 1..Len(rows) |-> rows[i][j]])
    IN  [i \in 1..Len(rows) |->
           [c \in Range(header) |->
              LET j == CHOOSE k \in 1..Len(header) : header[k] = c
              IN  ParseCell(rows[i][j], kind(j))]]

\* A file is the sequence of its lines, <<>> when it does not exist.
load_csv_data(file) ==
    IF file = <<>> THEN <<>>
    ELSE IF file[1] = <<>> THEN <<>>
    ELSE RecordsOf(file)

\* save_csv_data as it would be if a failing write left the file emptied
\* (opened for writing, nothing written).
save_csv_data_truncating(file, records, columns, ok) ==
    IF ok THEN CsvOf(records, columns) ELSE << <<>> >>

\* save_csv_data as it would be if it added the newest record to the file
\* instead of rewriting the file.
save_csv_data_appending(file, records, columns, ok) ==
    IF ~ok THEN file
    ELSE IF file = <<>> THEN CsvOf(records, columns)
    ELSE Append(file, CsvOf(records, columns)[Len(records) + 1])

\* The file after save_csv_data: rewritten in full, or left as it was when
\* the write raises (the exception is swallowed).
save_csv_data(file, records, columns, ok) ==
    IF ok THEN CsvOf(records, columns) ELSE file

(***************************************************************************)
(* State.  Each browser session s has its own st.session_state; the two    *)
(* CSV files are shared by all sessions.                                   *)
(***************************************************************************)
VARIABLES
    started,    \* started[s]: the script has run once in session s
    mines,      \* mines[s]: st.session_state['mines']
    data,       \* data[s]: st.session_state['data'], the issuance records
    stock,      \* stock[s]: st.session_state['stock'], the stock records
    msg,        \* msg[s]: the message the latest run of session s showed
    dataFile,   \* lines of issuance_data.csv, <<>> when absent
    stockFile   \* lines of stock_data.csv, <<>> when absent

vars == <<started, mines, data, stock, msg, dataFile, stockFile>>

Sessions == {1, 2}
default_mines == <<"Mine1", "Mine2", "Mine3">>

Init ==
    /\ started = [s \in Sessions |-> FALSE]
    /\ mines = [s \in Sessions |-> <<>>]
    /\ data = [s \in Sessions |-> <<>>]
    /\ stock = [s \in Sessions |-> <<>>]
    /\ msg = [s \in Sessions |-> "none"]
    /\ dataFile = <<>>
    /\ stockFile = <<>>

\* The dict appended by the entry form.
issuance_entry(date, mine, issued_by, received_by, remarks, wabox, detonators, fuse) ==
    [c \in Range(data_columns) |->
        CASE c = "Date" -> PyDate(date)
          [] c = "Mine" -> PyStr(mine)
          [] c = "Issued By" -> PyStr(issued_by)
          [] c = "Received By" -> PyStr(received_by)
          [] c = "Remarks" -> PyStr(remarks)
          [] c = "Wabox Cartridges" -> PyInt(wabox)
          [] c = "Detonators" -> PyInt(detonators)
          [] OTHER -> PyInt(fuse)]

\* The dict appended by the stock form.
stock_entry(stock_serial, stock_date, stock_type, stock_qty) ==
    [c \in Range(stock_columns) |->
        CASE c = "Serial No" -> PyStr(stock_serial)
          [] c = "Receiving Date" -> PyDate(stock_date)
          [] c = "Explosive Type" -> PyStr(stock_type)
          [] OTHER -> PyInt(stock_qty)]

\* First run of the script in a session: both lists are loaded from the
\* files and the registry starts from the three default names.
StartSession(s) ==
    /\ ~started[s]
    /\ started' = [started EXCEPT ![s] = TRUE]
    /\ data' = [data EXCEPT ![s] = load_csv_data(dataFile)]
    /\ stock' = [stock EXCEPT ![s] = load_csv_data(stockFile)]
    /\ mines' = [mines EXCEPT ![s] = default_mines]
    /\ msg' = [msg EXCEPT ![s] = "none"]
    /\ UNCHANGED <<dataFile, stockFile>>

\* Submit of add_mine_form.
AddMine(s, new_mine) ==
    /\ started[s]
    /\ (new_mine # "" /\ new_mine \notin Range(mines[s])) => Len(mines[s]) < MaxMines
    /\ IF new_mine # "" /\ new_mine \notin Range(mines[s])
       THEN /\ mines' = [mines EXCEPT ![s] = Append(@, new_mine)]
            /\ msg' = [msg EXCEPT ![s] = "Added mine"]
       ELSE /\ mines' = mines
            /\ msg' = [msg EXCEPT ![s] =
                         IF new_mine # "" THEN "Mine already exists." ELSE "none"]
    /\ UNCHANGED <<started, data, stock, dataFile, stockFile>>

\* The sweep as it would be if it stopped at the first record it rewrote.
RenameFirstEntry(entries, mine, new_name) ==
    LET hits == {k \in 1..Len(entries) : entries[k]["Mine"] = PyStr(mine)}
    IN  [k \in 1..Len(entries) |->
            IF k \in hits /\ \A j \in hits : k <= j
            THEN [entries[k] EXCEPT !["Mine"] = PyStr(new_name)]
            ELSE entries[k]]

\* The records after the rename loop's sweep for one changed text input.
RenameEntries(entries, mine, new_name) ==
    [k \in 1..Len(entries) |->
        IF entries[k]["Mine"] = PyStr(mine)
        THEN [entries[k] EXCEPT !["Mine"] = PyStr(new_name)]
        ELSE entries[k]]

\* The text input rename_i was changed to new_name.
RenameMine(s, i, new_name) ==
    /\ started[s]
    /\ i \in 1..Len(mines[s])
    /\ new_name # mines[s][i]
    /\ new_name # ""
    /\ data' = [data EXCEPT ![s] = RenameEntries(@, mines[s][i], new_name)]
    /\ mines' = [mines EXCEPT ![s][i] = new_name]
    /\ msg' = [msg EXCEPT ![s] = "Renamed"]
    /\ UNCHANGED <<started, stock, dataFile, stockFile>>

\* Submit of entry_form; ok tells whether the file write went through.
AddIssuance(s, date, mine, issued_by, received_by, remarks, wabox, detonators, fuse, ok) ==
    /\ started[s]
    /\ Len(data[s]) < MaxData
    /\ mine \in Range(mines[s])
    /\ LET entry == issuance_entry(date, mine, issued_by, received_by, remarks,
                                   wabox, detonators, fuse)
           entries == Append(data[s], entry)
       IN  /\ data' = [data EXCEPT ![s] = entries]
           /\ dataFile' = save_csv_data(dataFile, entries, data_columns, ok)
    /\ msg' = [msg EXCEPT ![s] = "Entry added"]
    /\ UNCHANGED <<started, mines, stock, stockFile>>

\* The stock form as it would be without the quantity test.
AddStockAnyQuantity(s, stock_serial, stock_date, stock_type, stock_qty, ok) ==
    /\ started[s]
    /\ stock_serial # "" => Len(stock[s]) < MaxStock
    /\ IF stock_serial # ""
       THEN LET entries == Append(stock[s],
                   stock_entry(stock_serial, stock_date, stock_type, stock_qty))
            IN  /\ stock' = [stock EXCEPT ![s] = entries]
                /\ stockFile' = save_csv_data(stockFile, entries, stock_columns, ok)
                /\ msg' = [msg EXCEPT ![s] = "Added stock"]
       ELSE /\ stock' = stock
            /\ stockFile' = stockFile
            /\ msg' = [msg EXCEPT ![s] = "Please enter serial no and quantity."]
    /\ UNCHANGED <<started, mines, data, dataFile>>

\* Submit of add_stock_form.
AddStock(s, stock_serial, stock_date, stock_type, stock_qty, ok) ==
    /\ started[s]
    /\ (stock_qty > 0 /\ stock_serial # "") => Len(stock[s]) < MaxStock
    /\ IF stock_qty > 0 /\ stock_serial # ""
       THEN LET entries == Append(stock[s],
                   stock_entry(stock_serial, stock_date, stock_type, stock_qty))
            IN  /\ stock' = [stock EXCEPT ![s] = entries]
                /\ stockFile' = save_csv_data(stockFile, entries, stock_columns, ok)
                /\ msg' = [msg EXCEPT ![s] = "Added stock"]
       ELSE /\ stock' = stock
            /\ stockFile' = stockFile
            /\ msg' = [msg EXCEPT ![s] = "Please enter serial no and quantity."]
    /\ UNCHANGED <<started, mines, data, dataFile>>

(***************************************************************************)
(* Derived views.                                                          *)
(***************************************************************************)
\* The rows of a frame whose key column holds the value g.
RowsOf(records, key, g) == {k \in 1..Len(records) : records[k][key] = g}

\* Sum of one numeric column over the given rows of a frame.
ColumnSum(records, column, rows) ==
    SumSeq([k \in 1..Len(records) |->
              IF k \in rows THEN records[k][column].n ELSE 0])

\* The groups of groupby(key): the key values that occur, NaN dropped.
GroupKeys(records, key) == {records[k][key] : k \in 1..Len(records)} \ {NaN}

\* groupby(key)[column].sum(): per group, the sum of the column.
GroupSum(records, key, column) ==
    [g \in GroupKeys(records, key) |->
        ColumnSum(records, column, RowsOf(records, key, g))]

\* Subtract as it would be without fill_value: a label missing on one side
\* gives no number (NaN), which balance.get then shows as nothing received
\* and nothing issued.
SubtractNoFill(left, right) ==
    [x \in DOMAIN left \cup DOMAIN right |->
        IF x \in DOMAIN left /\ x \in DOMAIN right THEN left[x] - right[x] ELSE 0]

\* Series.subtract(other, fill_value=0) on label-indexed series.
Subtract(left, right) ==
    [x \in DOMAIN left \cup DOMAIN right |->
        (IF x \in DOMAIN left THEN left[x] ELSE 0)
        - (IF x \in DOMAIN right THEN right[x] ELSE 0)]

get_stock_balance(s) ==
    LET zero == [x \in {PyStr(ty) : ty \in Range(explosive_types)} |-> 0]
        received == IF stock[s] # <<>>
                    THEN GroupSum(stock[s], "Explosive Type", "Quantity")
                    ELSE zero
        issued == IF data[s] # <<>>
                  THEN [x \in DOMAIN zero |-> ColumnSum(data[s], x.s, 1..Len(data[s]))]
                  ELSE zero
    IN  Subtract(received, issued)

\* balance.get(type, 0)
BalanceOf(s, ty) ==
    LET balance == get_stock_balance(s)
    IN  IF PyStr(ty) \in DOMAIN balance THEN balance[PyStr(ty)] ELSE 0

\* reports['Summary'] of get_reports: per Mine, the three column sums.
SummaryOf(records) ==
    IF records # <<>>
    THEN [g \in GroupKeys(records, "Mine") |->
            [c \in 1..3 |->
                ColumnSum(records, explosive_types[c], RowsOf(records, "Mine", g))]]
    ELSE << >>

Summary(s) == SummaryOf(data[s])

\* What the reports tab shows for the Summary report.
ReportsTab(s) ==
    IF DOMAIN Summary(s) # {} THEN "download" ELSE "No data available for this report."

(***************************************************************************)
(* Specifications.  Each one is the application driven through a subset of *)
(* its forms with inputs drawn from the sets below; the number of sessions *)
(* and the values entered are what differ, the handlers are the same.      *)
(***************************************************************************)
Dates == {1, 2}
Quantities == {0, 1}
StockQuantities == {0, 2}
Serials == {"", "S1"}
Remarks == {"", "ok", "7"}

\* Stock receipts and issuances of any quantities in one session.
NextBalance ==
    \E s \in {1} :
        \/ StartSession(s)
        \/ \E w, d, f \in Quantities :
              AddIssuance(s, 1, "Mine1", "Ali", "Bob", "ok", w, d, f, TRUE)
        \/ \E sn \in Serials, ty \in Range(explosive_types), q \in StockQuantities :
              AddStock(s, sn, 1, ty, q, TRUE)

SpecBalance == Init /\ [][NextBalance]_vars

\* The mine registry and the issuances that refer to it, in one session;
\* every write goes through.
NextRegistry ==
    \E s \in {1} :
        \/ StartSession(s)
        \/ \E n \in {"", "Mine2", "MineX"} : AddMine(s, n)
        \/ \E i \in 1..MaxMines, n \in {"", "Mine2", "MineX"} : RenameMine(s, i, n)
        \/ \E m \in Range(mines[s]) :
              AddIssuance(s, 1, m, "Ali", "Bob", "ok", 1, 0, 2, TRUE)

SpecRegistry == Init /\ [][NextRegistry]_vars

\* The two files under records with varied text, writes that may fail.
NextStorage ==
    \E s \in {1} :
        \/ StartSession(s)
        \/ \E dt \in Dates, r \in Remarks, ok \in BOOLEAN :
              AddIssuance(s, dt, "Mine1", "Ali", "Bob", r, 1, 0, 0, ok)
        \/ \E sn \in Serials, q \in Quantities, ok \in BOOLEAN :
              AddStock(s, sn, 1, "Detonators", q, ok)

SpecStorage == Init /\ [][NextStorage]_vars

\* Two sessions over the same files; every write goes through.
NextSessions ==
    \E s \in Sessions :
        \/ StartSession(s)
        \/ \E n \in {"MineX", "NA"} : AddMine(s, n)
        \/ \E m \in Range(mines[s]) \cap {"Mine1", "MineX", "NA"} :
              AddIssuance(s, 1, m, "Ali", "Bob", "ok", 1, 0, 0, TRUE)

SpecSessions == Init /\ [][NextSessions]_vars

\* Every operation that changes a record list; every write goes through.
NextPersistence ==
    \E s \in {1} :
        \/ StartSession(s)
        \/ RenameMine(s, 1, "MineX")
        \/ \E m \in Range(mines[s]) :
              AddIssuance(s, 1, m, "Ali", "Bob", "ok", 1, 0, 0, TRUE)
        \/ \E sn \in Serials, q \in Quantities :
              AddStock(s, sn, 1, "Detonators", q, TRUE)

SpecPersistence == Init /\ [][NextPersistence]_vars

(***************************************************************************)
(* Properties.                                                             *)
(***************************************************************************)
Types == Range(explosive_types)

\* Total received of a type: the quantities of the stock records of that type.
Received(s, ty) ==
    SumSeq([k \in 1..Len(stock[s]) |->
              IF stock[s][k]["Explosive Type"] = PyStr(ty)
              THEN stock[s][k]["Quantity"].n ELSE 0])

\* Total issued of a type: its column over all issuance records.
Issued(s, ty) == SumSeq([k \in 1..Len(data[s]) |-> data[s][k][ty].n])

\* C1: in every state reached by stock receipts and issuances, the balance
\* of each explosive type is the total received of that type minus the total
\* issued of it: a type without stock records counts as 0 received and the
\* difference is not clamped at zero.
C1_BalanceIsReceivedMinusIssued ==
    \A s \in Sessions, ty \in Types :
        BalanceOf(s, ty) = Received(s, ty) - Issued(s, ty)

\* A type that was issued but never received, next to one that was received:
\* its balance is negative.
C1_Witness ==
    \E ty, other \in Types :
        /\ Received(1, ty) = 0
        /\ Issued(1, ty) > 0
        /\ Received(1, other) > 0
        /\ BalanceOf(1, ty) < 0

\* What one submission of the stock form with the given inputs must do.
C5_StockStep(s, sn, dt, ty, q, ok) ==
    AddStock(s, sn, dt, ty, q, ok) =>
        IF sn = "" \/ q <= 0
        THEN UNCHANGED <<stock, stockFile, data, dataFile>>
        ELSE /\ stock'[s] = Append(stock[s], stock_entry(sn, dt, ty, q))
             /\ UNCHANGED <<data, dataFile>>

\* C5: a stock submission with an empty serial number or a quantity that is
\* not positive changes nothing (stock list, stock file, issuance list and
\* file, hence the balance derived from the lists); any other submission
\* appends exactly its record at the end, whether or not the serial number
\* is already in the list.
C5_StockValidation ==
    [][\A sn \in Serials, ty \in Types, q \in StockQuantities :
          C5_StockStep(1, sn, 1, ty, q, TRUE)]_vars

\* A rejected submission after two accepted ones with the same serial number.
C5_Witness ==
    /\ msg[1] = "Please enter serial no and quantity."
    /\ Len(stock[1]) = 2
    /\ stock[1][1]["Serial No"] = stock[1][2]["Serial No"]
    /\ stockFile = CsvOf(stock[1], stock_columns)

\* C2: no two entries of the mine registry are equal, whatever mines were
\* added and renamed (a rename to a name already registered included).
C2_RegistryNamesUnique ==
    \A s \in Sessions :
        \A i, j \in 1..Len(mines[s]) : i # j => mines[s][i] # mines[s][j]

\* The Summary row of a mine, zeros when the report has no row for it.
SummaryRow(report, mine) ==
    IF PyStr(mine) \in DOMAIN report THEN report[PyStr(mine)] ELSE <<0, 0, 0>>

\* What one rename of registry entry i to new must do.
C3_RenameStep(s, i, new) ==
    RenameMine(s, i, new) =>
        LET old == mines[s][i]
            before == Summary(s)
            after == SummaryOf(data'[s])
            others == (DOMAIN before \cup DOMAIN after) \ {PyStr(old), PyStr(new)}
            merged == [c \in 1..3 |->
                         SummaryRow(before, new)[c] + SummaryRow(before, old)[c]]
        IN  /\ \A k \in 1..Len(data'[s]) : data'[s][k]["Mine"] # PyStr(old)
            /\ Len(data'[s]) = Len(data[s])
            /\ mines'[s] = [mines[s] EXCEPT ![i] = new]
            /\ PyStr(old) \notin DOMAIN after
            /\ SummaryRow(after, new) = merged
            /\ \A g \in others :
                  g \in DOMAIN before /\ g \in DOMAIN after /\ after[g] = before[g]

\* C3: a rename of registry entry i from old to new (new not empty, not old)
\* leaves no issuance record with Mine = old, puts new at entry i, removes
\* old's row from the Summary report, makes new's totals the sum of new's
\* and old's earlier totals and keeps every other mine's totals; registry and
\* records change in one step.
C3_RenameCascade ==
    [][\A i \in 1..MaxMines, new \in {"Mine2", "MineX"} : C3_RenameStep(1, i, new)]_vars

\* Mine1 was renamed to Mine2 after issuances to both: every record now
\* carries Mine2 while the file still shows one of them under Mine1.
C3_Witness ==
    /\ msg[1] = "Renamed"
    /\ mines[1][1] = "Mine2"
    /\ Len(data[1]) = 2
    /\ \A k \in 1..2 : data[1][k]["Mine"] = PyStr("Mine2")
    /\ Len(dataFile) = 3
    /\ dataFile[2][2] = "Mine1"
    /\ dataFile[3][2] = "Mine2"

\* C4: after every addIssuance and addStock whose write went through, and
\* after every renameMine that rewrote the Mine of at least one record, the
\* file of the kind concerned holds exactly the list in memory.
C4_FileFollowsMemory ==
    [][/\ \A m \in Range(mines[1]) :
             AddIssuance(1, 1, m, "Ali", "Bob", "ok", 1, 0, 0, TRUE) =>
                 dataFile' = CsvOf(data'[1], data_columns)
       /\ (AddStock(1, "S1", 1, "Detonators", 1, TRUE) /\ stock' # stock) =>
             stockFile' = CsvOf(stock'[1], stock_columns)
       /\ (RenameMine(1, 1, "MineX") /\ data'[1] # data[1]) =>
             dataFile' = CsvOf(data'[1], data_columns)]_vars

\* pd.to_datetime of a Date cell: the day, 0 when the cell is no date.
AsDate(v) ==
    IF v.t = "date" THEN v.n
    ELSE IF v.t = "str" /\ v.s \in Range(IsoDates)
         THEN CHOOSE d \in 1..Len(IsoDates) : IsoDates[d] = v.s
    ELSE 0

\* Two record lists are the same: same length, same order, every field
\* equal, date fields equal as dates.
SameRecords(a, b, columns, dateColumn) ==
    /\ Len(a) = Len(b)
    /\ \A k \in 1..Len(a), j \in 1..Len(columns) :
          IF columns[j] = dateColumn
          THEN AsDate(a[k][dateColumn]) # 0 /\ AsDate(a[k][dateColumn]) = AsDate(b[k][dateColumn])
          ELSE a[k][columns[j]] = b[k][columns[j]]

\* C7: loading what save_csv_data wrote gives back the list that was saved,
\* for every list the application holds (empty text fields included).
C7_RoundTrip ==
    \A s \in Sessions :
        /\ SameRecords(load_csv_data(save_csv_data(<<>>, data[s], data_columns, TRUE)),
                       data[s], data_columns, "Date")
        /\ SameRecords(load_csv_data(save_csv_data(<<>>, stock[s], stock_columns, TRUE)),
                       stock[s], stock_columns, "Receiving Date")

\* What one submission of either form must do, the write failing or not.
C8_IssuanceStep(s, dt, r, ok) ==
    AddIssuance(s, dt, "Mine1", "Ali", "Bob", r, 1, 0, 0, ok) =>
        /\ data'[s] = Append(data[s], issuance_entry(dt, "Mine1", "Ali", "Bob", r, 1, 0, 0))
        /\ msg'[s] = "Entry added"
        /\ dataFile' = (IF ok THEN CsvOf(data'[s], data_columns) ELSE dataFile)

C8_StockStep(s, sn, q, ok) ==
    (AddStock(s, sn, 1, "Detonators", q, ok) /\ sn # "" /\ q > 0) =>
        /\ stock'[s] = Append(stock[s], stock_entry(sn, 1, "Detonators", q))
        /\ msg'[s] = "Added stock"
        /\ stockFile' = (IF ok THEN CsvOf(stock'[s], stock_columns) ELSE stockFile)

C6_SummaryGrouping ==
    \A s \in Sessions :
        LET report == Summary(s)
            minesIn == {data[s][k]["Mine"] : k \in 1..Len(data[s])}
        IN  IF data[s] = <<>>
            THEN DOMAIN report = {} /\ ReportsTab(s) = "No data available for this report."
            ELSE /\ DOMAIN report = minesIn
                 /\ ReportsTab(s) = "download"
                 /\ \A g \in DOMAIN report, c \in 1..3 :
                       report[g][c] =
                           SumSeq([k \in 1..Len(data[s]) |->
                                     IF data[s][k]["Mine"] = g
                                     THEN data[s][k][explosive_types[c]].n ELSE 0])
                 /\ \A c \in 1..3 :
                       LET column == CHOOSE q \in [1..Cardinality(DOMAIN report) -> DOMAIN report] :
                                        Range(q) = DOMAIN report
                       IN  SumSeq([k \in 1..Len(column) |-> report[column[k]][c]])
                              = Issued(s, explosive_types[c])

\* What one saved issuance of session s must do.
C9_SaveStep(s, m) ==
    AddIssuance(s, 1, m, "Ali", "Bob", "ok", 1, 0, 0, TRUE) =>
        /\ dataFile' = CsvOf(data'[s], data_columns)
        /\ Len(dataFile') = Len(data[s]) + 2
        /\ msg'[s] = "Entry added"
        /\ \A o \in Sessions \ {s} : data'[o] = data[o] /\ msg'[o] = msg[o]

\* C9: a save that goes through leaves the issuance file equal to the saving
\* session's own list, whatever the other session holds or wrote before, and
\* changes neither the other session's list nor its message.
C9_LastRewriteWins ==
    [][\A s \in Sessions, m \in {"Mine1", "MineX", "NA"} : C9_SaveStep(s, m)]_vars

\* Both sessions started on the absent file, each added one record and saved
\* it; the file holds the record of session 2 alone and both sessions show
\* the success message.
C9_Witness ==
    /\ Len(data[1]) = 1 /\ Len(data[2]) = 1
    /\ data[1][1]["Mine"] = PyStr("Mine1")
    /\ data[2][1]["Mine"] = PyStr("MineX")
    /\ dataFile = CsvOf(data[2], data_columns)
    /\ \A k \in 2..Len(dataFile) : dataFile[k] # CsvOf(data[1], data_columns)[2]
    /\ msg[1] = "Entry added" /\ msg[2] = "Entry added"

\* C10: the Mine of every issuance record in memory is a name of the
\* session's mine registry, also in a session that loaded records written
\* by a session in which mines were added or renamed.
C10_MineIsRegistered ==
    \A s \in Sessions :
        \A k \in 1..Len(data[s]) :
            \E i \in 1..Len(mines[s]) : data[s][k]["Mine"] = PyStr(mines[s][i])

====
